---- MODULE Spec2Model ----
(***************************************************************************)
(* RespondToWebhook.execute(): one execution of the "Respond to Webhook"   *)
(* node.  The host calls the node makes (sendChunk, sendResponse,          *)
(* putExecutionToWait) are recorded, in call order, in the log `calls`.    *)
(* Node versions are written in tenths: 1 is 10, 1.1 is 11, ... 1.5 is 15. *)
(***************************************************************************)
EXTENDS Integers, Sequences, FiniteSets, TLC

\* ---------------------------------------------------------------- bounds
MaxItems == 2
MaxParents == 1
MaxHeaders == 1

\* ------------------------------------------------------------- constants
Versions == {10, 11, 12, 13, 14, 15}
WebhookCheckVersion == 11
StreamingVersion == 15
ResponseOutputVersion == 13
ResponseOutputOptionVersion == 14
DefaultStatusCode == 200
RedirectStatusCode == 307

WEBHOOK_NODE_TYPE == "n8n-nodes-base.webhook"
FORM_TRIGGER_NODE_TYPE == "n8n-nodes-base.formTrigger"
CHAT_TRIGGER_NODE_TYPE == "@n8n/n8n-nodes-langchain.chatTrigger"
WAIT_NODE_TYPE == "n8n-nodes-base.wait"
WEBHOOK_NODE_TYPES ==
  {WEBHOOK_NODE_TYPE, FORM_TRIGGER_NODE_TYPE, CHAT_TRIGGER_NODE_TYPE, WAIT_NODE_TYPE}

RespondWithOptions ==
  {"allIncomingItems", "binary", "firstIncomingItem", "json", "jwt", "noData",
   "redirect", "text"}

NoWebhookMessage == "No Webhook node found in the workflow"
InvalidJsonMessage == "Invalid JSON in 'Response Body' field"
JwtErrorMessage == "Error signing JWT token"
NoBinaryMessage == "No binary data exists on the first item!"
NotSupportedMessage == "The Response Data option is not supported!"
\* errors of the runtime and of host helpers, not written in this file
TypeErrorMessage == "Cannot read properties of undefined (reading 'responseMode')"
AssertBinaryMessage == "This operation expects the node's input data to contain a binary file"

\* ----------------------------------------------------------- JSON values
\* Every value carries a tag t, so that values of different JavaScript types
\* are comparable.
Undefined == [t |-> "undefined"]
Str(s) == [t |-> "string", s |-> s]
Obj(fields) == [t |-> "object", f |-> fields]
Arr(elems) == [t |-> "array", a |-> elems]
NoFields == [k \in {} |-> Undefined]
Field(k, v) == [x \in {k} |-> v]

\* JSON.stringify(v): a string, never the value itself
JsonStringify(v) == [t |-> "string", s |-> "JSON", of |-> v]

\* JavaScript truthiness of a response body
Truthy(v) == /\ v.t # "undefined"
             /\ ~(v.t = "string" /\ v.s = "")

\* lodash set({}, key, value) for a plain key
SetIn(key, value) == Obj(Field(key, value))

\* x || d and x ?? d on an optional number [given, value]
OrDefault(x, d) == IF x.given /\ x.value # 0 THEN x.value ELSE d
Nullish(x, d) == IF x.given THEN x.value ELSE d

\* ------------------------------------------------------- input domains
ItemJson(i) == Obj(Field("id", Str(ToString(i))))
Items(n) == [i \in 1..n |-> [json |-> ItemJson(i - 1)]]

NoOptions == "options undefined"
ParentNodes ==
  { [type |-> ty, disabled |-> FALSE, responseMode |-> "none"] :
      ty \in {WEBHOOK_NODE_TYPE, FORM_TRIGGER_NODE_TYPE, WAIT_NODE_TYPE,
              "n8n-nodes-base.set"} }
  \cup
  { [type |-> CHAT_TRIGGER_NODE_TYPE, disabled |-> FALSE, responseMode |-> m] :
      m \in {"responseNodes", "lastNode", NoOptions} }
  \cup
  { [type |-> CHAT_TRIGGER_NODE_TYPE, disabled |-> TRUE, responseMode |-> "responseNodes"] }

HeaderEntries ==
  { [name |-> "Content-Type", value |-> "text/html"],
    [name |-> "content-type", value |-> "application/json"],
    [name |-> "Location", value |-> "http://old"] }

SeqsUpTo(S, n) == UNION { [1..k -> S] : k \in 0..n }

ResponseCodes ==
  { [given |-> FALSE, value |-> 0], [given |-> TRUE, value |-> 301] }

RawText == Str("<script>alert(1)</script>")
RedirectURL == "http://x"
OutputObject == Obj([output |-> Str("o"), text |-> Str("t")])
PlainObject == Obj([k |-> Str("v")])

\* the 'responseBody' parameter of json mode: empty, an object, or a string
\* that jsonParse accepts (giving `value`) or rejects
JsonBodyParameters ==
  { [kind |-> "empty", parses |-> FALSE, value |-> Undefined],
    [kind |-> "object", parses |-> FALSE, value |-> PlainObject],
    [kind |-> "string", parses |-> TRUE, value |-> OutputObject],
    [kind |-> "string", parses |-> FALSE, value |-> Undefined] }

\* items[0].binary: undefined, or the names of its binary fields
BinaryValues ==
  { [name |-> "undefined", defined |-> FALSE, keys |-> <<>>],
    [name |-> "no fields", defined |-> TRUE, keys |-> <<>>],
    [name |-> "data", defined |-> TRUE, keys |-> <<"data">>] }

VARIABLES
  nodeVersion,     \* this.getNode().typeVersion, in tenths
  items,           \* this.getInputData()
  connectedNodes,  \* this.getParentNodes(...)
  options,         \* this.getNodeParameter('options', 0, {})
  isStreaming,     \* this.isStreaming()
  pc,              \* position in execute()
  respondWith,     \* the 'respondWith' parameter, once read
  params,          \* the mode's own parameters, once read
  headers,         \* the headers object
  hasHtmlContentType,
  statusCode,
  responseBody,
  response,        \* the `response` variable of execute()
  calls,           \* host calls made so far, in order
  error,           \* message of the error raised in the try block, "" if none
  continueOnFail,  \* this.continueOnFail(), once read in the catch block
  outcome,         \* "running", "returned" or "thrown"
  result           \* the branches execute() returned

vars == <<nodeVersion, items, connectedNodes, options, isStreaming, pc, respondWith,
          params, headers, hasHtmlContentType, statusCode, responseBody, response, calls, error,
          continueOnFail, outcome, result>>

inputs == <<nodeVersion, items, connectedNodes, options, isStreaming>>

\* ------------------------------------------------------ external helpers
\* String.prototype.toLowerCase on the header names of HeaderEntries
ToLowerCase(s) ==
  CASE s = "Content-Type" -> "content-type"
    [] s = "Location" -> "location"
    [] OTHER -> s

\* n8n-core isHtmlRenderedContentType
IsHtmlRenderedContentType(contentType) ==
  contentType \in {"text/html", "application/xhtml+xml"}

\* n8n-core sandboxHtmlResponse: the text wrapped for sandboxed rendering,
\* never the text itself
SandboxHtmlResponse(v) == [t |-> "sandboxed", of |-> v]

\* n8n-workflow jsonParse on a string parameter
JsonParseOk(p) == p.parses
JsonParse(p) == p.value

\* ../../utils/utilities generatePairedItemData(length)
GeneratePairedItemData(length) == [i \in 1..length |-> [item |-> i - 1]]

\* helpers.constructExecutionMetaData(inputData, {itemData}): every element
\* of inputData with pairedItem attached
ConstructExecutionMetaData(inputData, itemData) ==
  [i \in DOMAIN inputData |-> [json |-> inputData[i].json, pairedItem |-> itemData]]

\* helpers.assertBinaryData(0, name) on the first item's binary fields
HasBinaryField(binary, name) == \E i \in DOMAIN binary.keys : binary.keys[i] = name

EmptyHeaders == [k \in {} |-> ""]
HasHeader(h, k) == k \in DOMAIN h
SetHeader(h, k, v) == [x \in (DOMAIN h) \cup {k} |-> IF x = k THEN v ELSE h[x]]

\* ./utils/binary getBinaryResponse(binaryData, headers): the body, and the
\* headers it leaves behind
BinaryBody(name) == [t |-> "binary", field |-> name]
BinaryHeaders(h) ==
  LET withLength == SetHeader(h, "content-length", "length of the data")
  IN  IF HasHeader(withLength, "content-type") THEN withLength
      ELSE SetHeader(withLength, "content-type", "mime type of the data")

\* ------------------------------------------------------------ host calls
SendChunk(type, index, content) ==
  [call |-> "sendChunk", type |-> type, index |-> index, arg |-> content]
SendResponse(resp) ==
  [call |-> "sendResponse", type |-> "", index |-> 0, arg |-> resp]
PutExecutionToWait ==
  [call |-> "putExecutionToWait", type |-> "", index |-> 0, arg |-> Str("WAIT_INDEFINITELY")]

NoResponse == [t |-> "undefined"]
Response(body, hdrs, code) ==
  [t |-> "response", body |-> body, headers |-> hdrs, statusCode |-> code]

\* ------------------------------------------------------------ execute()
\* line 376: shouldStream
ShouldStream ==
  /\ nodeVersion >= StreamingVersion
  /\ isStreaming
  /\ options.enableStreaming # "false"

\* a webhook parent check that forgets the wait node
HasWebhookParentNoWait(nodes) ==
  \E i \in DOMAIN nodes : nodes[i].type \in WEBHOOK_NODE_TYPES \ {WAIT_NODE_TYPE}

\* line 381: connectedNodes.some(({ type }) => WEBHOOK_NODE_TYPES.includes(type))
HasWebhookParent(nodes) ==
  \E i \in DOMAIN nodes : nodes[i].type \in WEBHOOK_NODE_TYPES

\* lines 395-403: the headers object built from options.responseHeaders
RECURSIVE BuildHeaders(_)
BuildHeaders(entries) ==
  IF entries = <<>> THEN EmptyHeaders
  ELSE LET n == Len(entries)
       IN  SetHeader(BuildHeaders(SubSeq(entries, 1, n - 1)),
                     ToLowerCase(entries[n].name), entries[n].value)

\* lines 405-406
HasHtmlContentType(h) ==
  HasHeader(h, "content-type") /\ IsHtmlRenderedContentType(h["content-type"])

\* a triplet that closes the item before sending it
TripletEndFirst(index, content) ==
  << SendChunk("begin", index, Undefined),
     SendChunk("end", index, Undefined),
     SendChunk("item", index, content) >>

\* the three sendChunk calls made for one item
Triplet(index, content) ==
  << SendChunk("begin", index, Undefined),
     SendChunk("item", index, content),
     SendChunk("end", index, Undefined) >>

\* lines 464-469: items.map(...), the chunks it sends
RECURSIVE ItemChunks(_)
ItemChunks(its) ==
  IF its = <<>> THEN <<>>
  ELSE LET n == Len(its)
       IN  ItemChunks(SubSeq(its, 1, n - 1)) \o Triplet(n - 1, its[n].json)

\* lines 464-469: items.map(...), the array it returns
RespondItems(its) == Arr([i \in DOMAIN its |-> its[i].json])

\* lines 428, 453, 477, 491: the chunks of a single-payload mode
StreamChunks(content) == IF ShouldStream THEN Triplet(0, content) ELSE <<>>

\* lines 470-476: options.responseKey ? set({}, key, value) : value
PutInField(key, value) == IF key # "" THEN SetIn(key, value) ELSE value

\* a text branch that sanitizes only under an explicit HTML content type
TextBodyHtmlOnly(rawBody, hasHtml, h) ==
  IF hasHtml THEN SandboxHtmlResponse(rawBody) ELSE rawBody

\* lines 485-489: the response body of text mode
TextBody(rawBody, hasHtml, h) ==
  IF hasHtml \/ ~HasHeader(h, "content-type")
  THEN SandboxHtmlResponse(rawBody)
  ELSE rawBody

\* line 493: the payload of text mode's item chunk
TextChunk(rawBody) == rawBody

\* a redirect branch that keeps the default status code
RedirectCodeKept(opts) == OrDefault(opts.responseCode, DefaultStatusCode)

\* line 525
RedirectCode(opts) == Nullish(opts.responseCode, RedirectStatusCode)

\* line 408
StatusCode(opts) == OrDefault(opts.responseCode, DefaultStatusCode)

\* lines 533-535: index of the first enabled chat trigger parent, 0 if none
FindChatTrigger(nodes) ==
  LET hits == { i \in DOMAIN nodes :
                  nodes[i].type = CHAT_TRIGGER_NODE_TYPE /\ ~nodes[i].disabled }
  IN  IF hits = {} THEN 0 ELSE CHOOSE i \in hits : \A j \in hits : i <= j

\* lines 548-561: the message handed to the chat service
ChatMessage(body) ==
  IF Truthy(body) /\ body.t = "object"
  THEN LET f == body.f
           m == IF "output" \in DOMAIN f THEN f["output"]
                ELSE IF "text" \in DOMAIN f THEN f["text"]
                ELSE IF "message" \in DOMAIN f THEN f["message"]
                ELSE Str("")
       IN  IF m = Str("") /\ DOMAIN f # {} THEN JsonStringify(body) ELSE m
  ELSE IF body.t = "binary" THEN JsonStringify(body)
  ELSE Str("")

\* lines 567-574: HTML sanitization of a non-text, non-binary body
FinalBody(body, hasHtml, mode) ==
  IF hasHtml /\ mode # "text" /\ mode # "binary" /\ Truthy(body)
  THEN SandboxHtmlResponse(JsonStringify(body))
  ELSE body

\* a final send guard without the binary exception
ShouldSendResponseUnlessStreaming(mode) == ~ShouldStream

\* line 582
ShouldSendResponse(mode) == ~ShouldStream \/ mode = "binary"

\* a catch block that returns one error item per input item
CatchOutputPerItem(message, its) ==
  [i \in DOMAIN its |->
     [json |-> Obj(Field("error", Str(message))), pairedItem |-> << [item |-> i - 1] >>]]

\* lines 587-592: the items returned under continue-on-fail
CatchOutput(message, its) ==
  ConstructExecutionMetaData(<< [json |-> Obj(Field("error", Str(message)))] >>,
                             GeneratePairedItemData(Len(its)))

\* lines 598-604: the branches of a successful execution
ResponseBranch(resp) == << [json |-> Obj(Field("response", resp))] >>

\* --------------------------------------------------------- state machine
NoParams ==
  [ body |-> Undefined, signed |-> "unread", responseKey |-> "unread",
    binary |-> "unread", dataSource |-> "unread", inputFieldName |-> "unread",
    redirectURL |-> "unread", enableResponseOutput |-> "unread" ]

\* lines 358-377: what execute() reads before the try block.  The
\* enableStreaming option exists from version 1.5 on (line 340).
Init ==
  /\ nodeVersion \in Versions
  /\ \E n \in 1..MaxItems : items = Items(n)
  /\ connectedNodes \in SeqsUpTo(ParentNodes, MaxParents)
  /\ options \in [ responseCode : ResponseCodes,
                   responseHeaders : SeqsUpTo(HeaderEntries, MaxHeaders),
                   enableStreaming : {"undefined", "true", "false"} ]
  /\ nodeVersion < StreamingVersion => options.enableStreaming = "undefined"
  /\ isStreaming \in BOOLEAN
  /\ pc = "try"
  /\ respondWith = "unread"
  /\ params = NoParams
  /\ headers = EmptyHeaders
  /\ hasHtmlContentType = FALSE
  /\ statusCode = 0
  /\ responseBody = Undefined
  /\ response = NoResponse
  /\ calls = <<>>
  /\ error = ""
  /\ continueOnFail = "unread"
  /\ outcome = "running"
  /\ result = <<>>

\* a throw inside the try block, after the host calls `sent`
Throw(message, sent, p) ==
  /\ error' = message
  /\ calls' = calls \o sent
  /\ params' = p
  /\ pc' = "catch"
  /\ UNCHANGED <<inputs, respondWith, headers, hasHtmlContentType, statusCode,
                 responseBody, response, continueOnFail, outcome, result>>

\* the end of a branch of the dispatch on respondWith
Built(body, hdrs, code, sent, p) ==
  /\ responseBody' = body
  /\ headers' = hdrs
  /\ statusCode' = code
  /\ calls' = calls \o sent
  /\ params' = p
  /\ pc' = "built"
  /\ UNCHANGED <<inputs, respondWith, hasHtmlContentType, response, error,
                 continueOnFail, outcome, result>>

\* lines 380-408: the webhook parent check, then respondWith, the headers and
\* the status code
Begin ==
  /\ pc = "try"
  /\ IF nodeVersion >= WebhookCheckVersion /\ ~HasWebhookParent(connectedNodes)
     THEN Throw(NoWebhookMessage, <<>>, params)
     ELSE /\ \E mode \in RespondWithOptions \cup {"other"} : respondWith' = mode
          /\ headers' = BuildHeaders(options.responseHeaders)
          /\ hasHtmlContentType' = HasHtmlContentType(headers')
          /\ statusCode' = StatusCode(options)
          /\ pc' = "dispatch"
          /\ UNCHANGED <<inputs, params, responseBody, response, calls, error,
                         continueOnFail, outcome, result>>

\* lines 410-432
RespondJson ==
  /\ pc = "dispatch" /\ respondWith = "json"
  /\ \E p \in JsonBodyParameters :
       LET q == [params EXCEPT !.body = p]
           body == IF p.kind = "empty" THEN Undefined
                   ELSE IF p.kind = "object" THEN p.value
                   ELSE JsonParse(p)
       IN  IF p.kind = "string" /\ ~JsonParseOk(p)
           THEN Throw(InvalidJsonMessage, <<>>, q)
           ELSE Built(body, headers, statusCode, StreamChunks(body), q)

\* lines 433-462
RespondJwt ==
  /\ pc = "dispatch" /\ respondWith = "jwt"
  /\ \E ok \in BOOLEAN :
       LET body == Obj(Field("token", Str("signed token")))
       IN  IF ok
           THEN Built(body, headers, statusCode, StreamChunks(body),
                      [params EXCEPT !.signed = "yes"])
           ELSE Throw(JwtErrorMessage, <<>>, [params EXCEPT !.signed = "no"])

\* lines 463-472
RespondAllIncomingItems ==
  /\ pc = "dispatch" /\ respondWith = "allIncomingItems"
  /\ \E key \in {"", "data"} :
       Built(PutInField(key, RespondItems(items)), headers, statusCode,
             ItemChunks(items), [params EXCEPT !.responseKey = key])

\* lines 473-481
RespondFirstIncomingItem ==
  /\ pc = "dispatch" /\ respondWith = "firstIncomingItem"
  /\ \E key \in {"", "data"} :
       Built(PutInField(key, items[1].json), headers, statusCode,
             StreamChunks(items[1].json), [params EXCEPT !.responseKey = key])

\* lines 482-495
RespondText ==
  /\ pc = "dispatch" /\ respondWith = "text"
  /\ LET rawBody == RawText
     IN  Built(TextBody(rawBody, hasHtmlContentType, headers), headers, statusCode,
               StreamChunks(TextChunk(rawBody)), [params EXCEPT !.body = rawBody])

\* lines 496-522
RespondBinary ==
  /\ pc = "dispatch" /\ respondWith = "binary"
  /\ \E b \in BinaryValues :
       LET q == [params EXCEPT !.binary = b.name]
       IN  IF ~b.defined
           THEN Throw(NoBinaryMessage, <<>>, q)
           ELSE \E source \in {"set", "automatically"} :
                \E field \in IF source = "set" THEN {"data", "other"} ELSE {"unread"} :
                  LET r == [q EXCEPT !.dataSource = source, !.inputFieldName = field]
                      name == IF source = "set" THEN field ELSE b.keys[1]
                  IN  IF source # "set" /\ Len(b.keys) = 0
                      THEN Throw(NoBinaryMessage, <<>>, r)
                      ELSE IF ~HasBinaryField(b, name)
                      THEN Throw(AssertBinaryMessage, <<>>, r)
                      ELSE Built(BinaryBody(name), BinaryHeaders(headers),
                                 statusCode, <<>>, r)

\* lines 523-525
RespondRedirect ==
  /\ pc = "dispatch" /\ respondWith = "redirect"
  /\ Built(responseBody, SetHeader(headers, "location", RedirectURL),
           RedirectCode(options), <<>>, [params EXCEPT !.redirectURL = RedirectURL])

\* lines 526-531
RespondOther ==
  /\ pc = "dispatch" /\ respondWith \notin RespondWithOptions \ {"noData"}
  /\ IF respondWith # "noData"
     THEN Throw(NotSupportedMessage, <<>>, params)
     ELSE Built(responseBody, headers, statusCode, <<>>, params)

\* lines 533-584: the chat trigger hand-off, or the response and its delivery
Deliver ==
  /\ pc = "built"
  /\ LET i == FindChatTrigger(connectedNodes)
     IN  IF i # 0 /\ connectedNodes[i].responseMode = NoOptions
         THEN Throw(TypeErrorMessage, <<>>, params)
         ELSE IF i # 0 /\ connectedNodes[i].responseMode = "responseNodes"
         THEN /\ calls' = Append(calls, PutExecutionToWait)
              /\ result' = << << [json |-> Obj(NoFields),
                                  sendMessage |-> ChatMessage(responseBody)] >> >>
              /\ outcome' = "returned"
              /\ pc' = "done"
              /\ UNCHANGED <<inputs, respondWith, params, headers, hasHtmlContentType,
                             statusCode, responseBody, response, error, continueOnFail>>
         ELSE /\ responseBody' = FinalBody(responseBody, hasHtmlContentType, respondWith)
              /\ response' = Response(responseBody', headers, statusCode)
              /\ calls' = IF ShouldSendResponse(respondWith)
                          THEN Append(calls, SendResponse(response'))
                          ELSE calls
              /\ pc' = "return"
              /\ UNCHANGED <<inputs, respondWith, params, headers, hasHtmlContentType,
                             statusCode, error, continueOnFail, outcome, result>>

\* lines 585-596
Catch ==
  /\ pc = "catch"
  /\ \E cof \in BOOLEAN :
       /\ continueOnFail' = IF cof THEN "yes" ELSE "no"
       /\ IF cof
          THEN result' = << CatchOutput(error, items) >> /\ outcome' = "returned"
          ELSE result' = result /\ outcome' = "thrown"
  /\ pc' = "done"
  /\ UNCHANGED <<inputs, respondWith, params, headers, hasHtmlContentType, statusCode,
                 responseBody, response, calls, error>>

\* lines 598-604
Return ==
  /\ pc = "return"
  /\ IF nodeVersion = ResponseOutputVersion
     THEN result' = << items, ResponseBranch(response) >> /\ params' = params
     ELSE IF nodeVersion >= ResponseOutputOptionVersion
     THEN \E enabled \in BOOLEAN :
            /\ params' = [params EXCEPT !.enableResponseOutput =
                                           IF enabled THEN "yes" ELSE "no"]
            /\ result' = IF enabled THEN << items, ResponseBranch(response) >>
                         ELSE << items >>
     ELSE result' = << items >> /\ params' = params
  /\ outcome' = "returned"
  /\ pc' = "done"
  /\ UNCHANGED <<inputs, respondWith, headers, hasHtmlContentType, statusCode,
                 responseBody, response, calls, error, continueOnFail>>

Next ==
  \/ Begin
  \/ RespondJson
  \/ RespondJwt
  \/ RespondAllIncomingItems
  \/ RespondFirstIncomingItem
  \/ RespondText
  \/ RespondBinary
  \/ RespondRedirect
  \/ RespondOther
  \/ Deliver
  \/ Catch
  \/ Return

Spec == Init /\ [][Next]_vars

\* ----------------------------------------------------------------- claims
IsChunk(c) == c.call = "sendChunk"
IsResponse(c) == c.call = "sendResponse"
IsWait(c) == c.call = "putExecutionToWait"
Chunks == SelectSeq(calls, IsChunk)
Responses == SelectSeq(calls, IsResponse)
Waits == SelectSeq(calls, IsWait)

StreamingActive ==
  nodeVersion >= 15 /\ isStreaming /\ options.enableStreaming # "false"
StreamableModes == {"json", "text", "jwt", "allIncomingItems", "firstIncomingItem"}
SingleChunkModes == {"json", "text", "jwt", "firstIncomingItem"}

\* execute() returned its input items: no error, no chat hand-off
Succeeded == pc = "done" /\ error = "" /\ Waits = <<>>
\* the dispatch on respondWith ended without a throw
PayloadBuilt ==
  \/ pc \in {"built", "return"}
  \/ pc \in {"catch", "done"} /\ error \in {"", TypeErrorMessage}
EnabledResponseNodesChat ==
  \E i \in DOMAIN connectedNodes :
    /\ connectedNodes[i].type = "@n8n/n8n-nodes-langchain.chatTrigger"
    /\ ~connectedNodes[i].disabled
    /\ connectedNodes[i].responseMode = "responseNodes"
ContentTypeEntries ==
  { j \in DOMAIN options.responseHeaders :
      options.responseHeaders[j].name \in {"Content-Type", "content-type"} }
\* the content type in force is the last one configured
HtmlOrNoContentType ==
  \/ ContentTypeEntries = {}
  \/ \E j \in ContentTypeEntries :
       /\ \A k \in ContentTypeEntries : k <= j
       /\ options.responseHeaders[j].value = "text/html"
ErrorItem == [json |-> [t |-> "object", f |-> [error |-> [t |-> "string", s |-> error]]]]

\* C1: an execution that finishes without an error and outside the chat-queue
\* path produces exactly one response: exactly one sendResponse call, or a
\* streamed chunk sequence, never neither and never both.
C1_ExactlyOneResponse ==
  Succeeded =>
    \/ Len(Responses) = 1 /\ Chunks = <<>>
    \/ Len(Responses) = 0 /\ Chunks # <<>>

\* C2: when an error is raised inside the try block, no sendChunk and no
\* sendResponse call has been made before it and none is made after it.
C2_NothingSentOnError ==
  error # "" => Chunks = <<>> /\ Responses = <<>>

C4_ChunksOnlyWhenStreaming ==
  Chunks # <<>> => StreamingActive /\ respondWith \in StreamableModes

\* C5: the sendChunk calls of an execution are complete triplets begin(i),
\* item(i), end(i) with i = 0, 1, ... in order; allIncomingItems sends one
\* triplet per input item, carrying the items in input order; json, text, jwt
\* and firstIncomingItem with streaming on send exactly one triplet, index 0;
\* no chunk follows a sendResponse call.
C5_ChunkTriplets ==
  LET ch == Chunks
      n == Len(ch) \div 3
  IN  /\ Len(ch) = 3 * n
      /\ \A k \in 0..(n - 1) :
           /\ ch[3 * k + 1].type = "begin" /\ ch[3 * k + 1].index = k
           /\ ch[3 * k + 2].type = "item" /\ ch[3 * k + 2].index = k
           /\ ch[3 * k + 3].type = "end" /\ ch[3 * k + 3].index = k
      /\ (respondWith = "allIncomingItems" /\ PayloadBuilt) =>
           /\ n = Len(items)
           /\ \A k \in 0..(n - 1) : ch[3 * k + 2].arg = items[k + 1].json
      /\ respondWith \in SingleChunkModes =>
           /\ n <= 1
           /\ (StreamingActive /\ PayloadBuilt) => n = 1
      /\ \A i, j \in DOMAIN calls :
           (i < j /\ IsResponse(calls[i])) => ~IsChunk(calls[j])

C5_Witness ==
  /\ pc = "done" /\ respondWith = "allIncomingItems" /\ Len(items) = 2
  /\ Len(Chunks) = 6 /\ Chunks[5].arg = items[2].json
  /\ Len(Responses) = 1

\* C6: with an enabled chat trigger parent in responseNodes mode and a built
\* payload, the execution sends no response and no chunk, calls
\* putExecutionToWait exactly once and returns the single item
\* {json: {}, sendMessage: message}.
C6_ChatPathSendsNothing ==
  (pc = "done" /\ EnabledResponseNodesChat /\ PayloadBuilt) =>
    /\ Responses = <<>>
    /\ Chunks = <<>>
    /\ Len(Waits) = 1
    /\ Len(result) = 1 /\ Len(result[1]) = 1
    /\ result[1][1].json = [t |-> "object", f |-> << >>]
    /\ result[1][1].sendMessage = ChatMessage(responseBody)

\* C7 as stated: in text mode with an HTML or no content type, every copy of
\* the text handed to the host, the sendResponse body and the item chunk, is
\* the sanitized form.
C7_EveryTextCopySanitized ==
  (respondWith = "text" /\ HtmlOrNoContentType) =>
    \A i \in DOMAIN calls :
      /\ IsResponse(calls[i]) =>
           calls[i].arg.body = [t |-> "sandboxed", of |-> RawText]
      /\ (IsChunk(calls[i]) /\ calls[i].type = "item") =>
           calls[i].arg = [t |-> "sandboxed", of |-> RawText]

\* C7 as amended: in text mode with an HTML or no content type, the response
\* body, in the response object and in every sendResponse call, is the
\* sanitized form and never the raw string; the item chunk sent when
\* streaming is on carries the raw string.
C7_TextResponseSanitized ==
  (respondWith = "text" /\ HtmlOrNoContentType) =>
    /\ \A i \in DOMAIN calls :
         /\ IsResponse(calls[i]) =>
              calls[i].arg.body = [t |-> "sandboxed", of |-> RawText]
         /\ (IsChunk(calls[i]) /\ calls[i].type = "item") => calls[i].arg = RawText
    /\ response # NoResponse =>
         response.body = [t |-> "sandboxed", of |-> RawText]

C7_Witness ==
  /\ pc = "done" /\ respondWith = "text" /\ options.responseHeaders = <<>>
  /\ Len(Responses) = 1
  /\ Responses[1].arg.body = [t |-> "sandboxed", of |-> RawText]

\* C8: binary mode never streams: a successful binary execution outside the
\* chat-queue path makes no sendChunk call and exactly one sendResponse call,
\* carrying the binary payload; with no binary data on the first item
\* (binary undefined, or automatic selection with no fields) it fails with
\* the "No binary data" error and sends nothing.
C8_BinaryNeverStreams ==
  respondWith = "binary" =>
    /\ Chunks = <<>>
    /\ Succeeded =>
         /\ Len(Responses) = 1
         /\ Responses[1].arg.body.t = "binary"
    /\ ( \/ params.binary = "undefined"
         \/ params.binary = "no fields" /\ params.dataSource = "automatically" ) =>
         /\ error = "No binary data exists on the first item!"
         /\ calls = <<>>

C8_Witness ==
  /\ pc = "done" /\ respondWith = "binary" /\ StreamingActive
  /\ error = "" /\ Len(Responses) = 1 /\ Chunks = <<>>

\* C9: in redirect mode the response headers hold location = the redirect
\* URL, over any configured location header, and the status code is the
\* configured code, or 307 when none is given; in every other mode the status
\* code is the configured code, or 200 when none is given.
C9_RedirectAndStatus ==
  response # NoResponse =>
    /\ respondWith = "redirect" =>
         /\ "location" \in DOMAIN response.headers
         /\ response.headers["location"] = RedirectURL
         /\ response.statusCode =
              IF options.responseCode.given THEN options.responseCode.value ELSE 307
    /\ respondWith # "redirect" =>
         response.statusCode =
           IF options.responseCode.given THEN options.responseCode.value ELSE 200
    /\ \A i \in DOMAIN calls : IsResponse(calls[i]) => calls[i].arg = response

C9_Witness ==
  /\ pc = "done" /\ respondWith = "redirect" /\ ~options.responseCode.given
  /\ options.responseHeaders = << [name |-> "Location", value |-> "http://old"] >>
  /\ Len(Responses) = 1
  /\ Responses[1].arg.statusCode = 307
  /\ Responses[1].arg.headers["location"] = "http://x"

\* C10: the "No Webhook node found" error is raised exactly when the version
\* is >= 1.1 and no parent is a webhook, form trigger, chat trigger or wait
\* node, before respondWith is read and before anything is sent; a successful
\* non-chat execution returns the input items as its first branch, and a
\* second branch of one item {response} exactly when the version is 1.3, or
\* is >= 1.4 with enableResponseOutput true.
C10_VersionGating ==
  LET webhookParent ==
        \E i \in DOMAIN connectedNodes :
          connectedNodes[i].type \in
            { "n8n-nodes-base.webhook", "n8n-nodes-base.formTrigger",
              "@n8n/n8n-nodes-langchain.chatTrigger", "n8n-nodes-base.wait" }
      second ==
        \/ nodeVersion = 13
        \/ nodeVersion >= 14 /\ params.enableResponseOutput = "yes"
  IN  /\ pc # "try" =>
           ((error = NoWebhookMessage) <=> (nodeVersion >= 11 /\ ~webhookParent))
      /\ error = NoWebhookMessage => respondWith = "unread" /\ calls = <<>>
      /\ Succeeded =>
           /\ result[1] = items
           /\ Len(result) = IF second THEN 2 ELSE 1
           /\ second => result[2] = << [json |-> Obj(Field("response", response))] >>

C10_Witness ==
  /\ pc = "done" /\ error = "" /\ nodeVersion = 13 /\ Len(items) = 2
  /\ connectedNodes = << [type |-> "n8n-nodes-base.wait", disabled |-> FALSE,
                          responseMode |-> "none"] >>
  /\ Len(result) = 2 /\ result[1] = items

====
